---- MODULE Spec2Model ----
(***************************************************************************)
(* Model of the mangadex-bot update-tracking pipeline:                     *)
(*   - the tracking store (src/db.rs, one MongoDB document per manga),     *)
(*   - the periodic scan task (src/scan.rs),                               *)
(*   - the "track" slash command (src/discord/command/track.rs),           *)
(*   - the MangaDex API as seen by the bot (src/mangadex.rs).              *)
(* Every await point of the source is a separate step, so that track       *)
(* requests, the scan task and upstream changes interleave as tokio tasks  *)
(* do.                                                                     *)
(***************************************************************************)
EXTENDS Integers, Sequences, FiniteSets, TLC

\* ------------------------------------------------------------------ bounds
NumMangas == 2
NumTrackIds == 1
NumChannels == 2
NumChapters == 2
NumProcs == 2
MaxCycles == 2
MaxRequests == 2
\* discord/mod.rs:44  the scan period, in units of the delay between items.
Period == 3
\* The time up to which the clock is followed.
MaxTime == 12

Mangas == 1..NumMangas
\* The ids that "track" commands name in Spec; the other mangas of the world
\* appear only in the populated store of ScanSpec.
TrackIds == 1..NumTrackIds
Channels == 1..NumChannels
Chapters == 1..NumChapters
Procs == 1..NumProcs

\* Option::None of latest_chapter_id / of an upstream answer.
None == 0
\* Err(_) of mangadex::latest_chapter.
Err == -1

\* ------------------------------------------------------------------ state
VARIABLES
    db,         \* the collection: manga id -> document (NoDoc when absent)
    upstream,   \* MangaDex: manga id -> id of its latest chapter, or None
    attributes, \* MangaDex: chapter id -> the attributes of that chapter
    titles,     \* MangaDex: manga id -> attributes.title of that manga, a
                \* map from language to title
    scanPc,     \* where the scan task is suspended
    cycle,      \* number of check_for_updates calls started
    snapshot,   \* the Vec<Manga> read_many returned for this cycle
    idx,        \* position of the for loop in snapshot
    chapter,    \* what latest_chapter returned for this item: Err, None or
                \* the id of the chapter
    chanIdx,    \* position of the inner loop in manga.channels
    sent,       \* delivery attempts of the current item:
                \* <<channel, ok, message>>
    tpc,        \* per track request: where Track::run is suspended
    tref,       \* per track request: the value of its "url" option
    treq,       \* per track request: <<manga_id, channel_id>>
    tdoc,       \* per track request: its local `manga` value
    terr,       \* per track request: why run returned Err ("" when it did not)
    treply,     \* per track request: text passed to say ("" when none)
    nreq,       \* number of track requests received so far
    notified,   \* history: <<manga, chapter, channel, cycle>> attempts
    seenAt,     \* history: cycle in which db[m].latest_chapter_id was observed
    tseen,      \* history: seenAt of the document a track request read
    baseline,   \* history: latest_chapter_id a record was created with
    scanned,    \* history: the scan has finished processing this record once
    twrote,     \* history: the track request changed the collection
    tagain,     \* history: the request repeats the request that this
                \* handler served just before and that returned Ok
    tcalled,    \* history: the track request has called the store or the
                \* MangaDex API
    itemLog,    \* history: what the scan did for the current item, a subset
                \* of Events
    visited,    \* history: the items this cycle is through with, as
                \* <<manga id, a call made for it failed>>
    now,        \* the clock, in units of the delay between two items
    lastStart,  \* time: when scan called check_for_updates last
    sleepFrom,  \* time: when the scan task went to sleep last
    lastFetch   \* time: when the scan called latest_chapter last, -1 before

scanVars == <<scanPc, cycle, snapshot, idx, chapter, chanIdx, sent>>
trackVars == <<tpc, tref, treq, tdoc, terr, treply, nreq>>
scanHist == <<itemLog, visited>>
histVars == <<notified, seenAt, tseen, baseline, scanned, twrote, tagain,
             tcalled, scanHist>>
timeVars == <<now, lastStart, sleepFrom, lastFetch>>
vars == <<db, upstream, attributes, titles, scanVars, trackVars, histVars,
          timeVars>>

\* ------------------------------------------------------------------ db.rs
\* struct Manga, with `exists` telling a document from its absence.
Manga(id, title, latest, channels) ==
    [exists |-> TRUE, id |-> id, title |-> title,
     latest_chapter_id |-> latest, channels |-> channels]

NoDoc ==
    [exists |-> FALSE, id |-> 0, title |-> "",
     latest_chapter_id |-> None, channels |-> <<>>]

IsDoc(d) == d.exists

\* MongoClient::read_many with the empty filter: every document, in _id order.
read_many(coll) == SelectSeq([m \in Mangas |-> coll[m]], IsDoc)

\* MongoClient::read with filter {_id: id}.
read(coll, id) == coll[id]

\* MongoClient::create: insert_one fails on a duplicate _id.
CreateConflicts(coll, doc) == coll[doc.id].exists

create(coll, doc) == [coll EXCEPT ![doc.id] = doc]

\* MongoClient::update with {"$set": {"latest_chapter_id": ch}}: only that
\* field of the matched document changes; no match, no change.
update_set_latest(coll, id, ch) ==
    IF coll[id].exists
    THEN [coll EXCEPT ![id].latest_chapter_id = ch]
    ELSE coll

\* An update that appends the caller's newest channel to the stored list
\* (a $push) and leaves the other fields alone.
update_document_push(coll, id, doc) ==
    IF coll[id].exists
    THEN [coll EXCEPT ![id].channels =
             Append(coll[id].channels, doc.channels[Len(doc.channels)])]
    ELSE coll

\* MongoClient::update with a whole Manga as the update document
\* (track.rs:103-105): the write the caller means, every field of the matched
\* document takes the value of the caller's copy. A driver or server that
\* rejects the document is the failing outcome of the calling step.
update_document(coll, id, doc) ==
    IF coll[id].exists
    THEN [coll EXCEPT ![id] = doc]
    ELSE coll

\* ------------------------------------------------------------------ helpers
Contains(s, x) == \E i \in 1..Len(s) : s[i] = x

Count(s, x) == Cardinality({i \in 1..Len(s) : s[i] = x})

\* mangadex::english_title .unwrap_or_else(|| manga_id.clone())
TitleOrId(t) == IF t = "" THEN "id" ELSE t

\* ------------------------------------------------------------------ mangadex.rs
\* The keys of MangaAttributes.title (mangadex.rs:97-99) that the model
\* tells apart: english, and two other languages a manga may be titled in.
Languages == {"en", "ja-ro", "ja"}

\* The title of a manga in language l.
TitleIn(l) == IF l = "en" THEN "T" ELSE IF l = "ja-ro" THEN "R" ELSE "J"

\* A HashMap<String, String> of titles: "" for a key the map does not have.
TitleMap(S) == [l \in Languages |-> IF l \in S THEN TitleIn(l) ELSE ""]

TitleMaps == {TitleMap(S) : S \in SUBSET Languages}

\* MangaAttributes::english_title (mangadex.rs:102-107): self.title.get("en"),
\* "" for None.
MangaAttributes_english_title(title) == title["en"]

\* mangadex::english_title (mangadex.rs:141-155) when the request succeeds:
\* manga.attributes.english_title() of the manga fetched by id.
english_title(manga_id) == MangaAttributes_english_title(titles[manga_id])

\* struct ChapterAttributes, the two fields a message is made of. An
\* Option<String> is <<>> for None and <<s>> for Some(s).
ChapterAttributes(ch, title) == [chapter |-> ch, title |-> title]

AttributeValues ==
    {ChapterAttributes(ch, title) :
        ch \in {<<>>, <<"12">>, <<"">>},
        title \in {<<>>, <<"The Return">>, <<"">>}}

\* The attributes of the chapters of Spec: a chapter number and no title.
NumberedChapter == ChapterAttributes(<<"12">>, <<>>)

\* mangadex.rs:115-124  Chapter::url: https://mangadex.org joined with
\* /chapter/ and with the id of the chapter, as {url} prints it.
Chapter_url(id) == <<"https://mangadex.org/chapter/", ToString(id)>>

\* ------------------------------------------------------------------ track.rs (option)
\* The strings an option value or a path segment can be, as <<kind, n>>:
\* <<"uuid", m>> is the hyphenated lower-case spelling of the id of manga m
\* (what Uuid::to_string gives), <<"UUID", m>> another spelling of it that
\* Uuid::parse_str accepts (upper case, or without hyphens), <<"bad", m>> a
\* spelling that it rejects (a character short), and Word(w) the plain
\* string w.
Word(w) == <<w, 0>>

Segments ==
    {<<"uuid", m>> : m \in TrackIds} \cup {<<"UUID", m>> : m \in TrackIds}
    \cup {<<"bad", m>> : m \in TrackIds}
    \cup {Word("title"), Word("manga"), Word("")}

\* track.rs:146, 167  Uuid::parse_str(s).ok(): the Uuid, whatever accepted
\* spelling s is; track.rs:81 turns it back into the hyphenated string that
\* keys the collection, for which the manga's number stands.
Uuid_parse_str(s) == IF s[1] \in {"uuid", "UUID"} THEN s[2] ELSE None

\* The value of the option: a string that Url::parse rejects (text), or one
\* that it parses into a host and path segments. A URL is no Uuid spelling.
TextRef(s) == [url |-> FALSE, text |-> s, host |-> "", path |-> <<>>]

UrlRef(h, segs) == [url |-> TRUE, text |-> Word(""), host |-> h, path |-> segs]

NoRef == TextRef(Word(""))

Hosts == {"mangadex.org", "www.mangadex.org", "example.com"}

Paths ==
    {<<a>> : a \in Segments}
    \cup {<<a, b>> : a \in {Word("title"), Word("manga")}, b \in Segments}
    \cup {<<a, b, c>> : a \in {Word("title"), Word("manga")},
                        b \in Segments, c \in {Word("manga"), Word("")}}

References ==
    {TextRef(s) : s \in Segments} \cup {UrlRef(h, q) : h \in Hosts, q \in Paths}

\* The option values of the commands in Spec: the id of each manga that is
\* tracked there, and a string that names none.
TrackRefs ==
    {TextRef(<<"uuid", m>>) : m \in TrackIds} \cup {TextRef(Word("manga"))}

\* Variant: the host of the URL is not looked at.
manga_id_from_url_any_host(url) ==
    IF Len(url.path) < 1 THEN None
    ELSE IF url.path[1] # Word("title") THEN None
    ELSE IF Len(url.path) < 2 THEN None
    ELSE Uuid_parse_str(url.path[2])

\* track.rs:156-168  manga_id_from_url: the host test, then the first two
\* path segments, each `?` returning None when the segment is missing.
manga_id_from_url(url) ==
    IF url.host # "mangadex.org" THEN None
    ELSE IF Len(url.path) < 1 THEN None
    ELSE IF url.path[1] # Word("title") THEN None
    ELSE IF Len(url.path) < 2 THEN None
    ELSE Uuid_parse_str(url.path[2])

\* track.rs:145-153  manga_id_from_option
manga_id_from_option(r) ==
    IF Uuid_parse_str(r.text) # None THEN Uuid_parse_str(r.text)
    ELSE IF r.url THEN manga_id_from_url(r)
    ELSE None

\* ------------------------------------------------------------------ Init
Init ==
    /\ db = [m \in Mangas |-> NoDoc]
    /\ upstream \in [Mangas -> {None} \cup Chapters]
    /\ \A m \in Mangas \ TrackIds : upstream[m] = None
    /\ attributes = [ch \in Chapters |-> NumberedChapter]
    /\ titles \in [Mangas -> {TitleMap({}), TitleMap({"en"})}]
    /\ \A m \in Mangas \ TrackIds : titles[m] = TitleMap({"en"})
    /\ scanPc = "start"
    /\ cycle = 0
    /\ now = 0
    /\ lastStart = 0
    /\ sleepFrom = 0
    /\ lastFetch = -1
    /\ snapshot = <<>>
    /\ idx = 0
    /\ chapter = None
    /\ chanIdx = 0
    /\ sent = <<>>
    /\ tpc = [p \in Procs |-> "idle"]
    /\ tref = [p \in Procs |-> NoRef]
    /\ treq = [p \in Procs |-> <<0, 0>>]
    /\ tdoc = [p \in Procs |-> NoDoc]
    /\ terr = [p \in Procs |-> ""]
    /\ treply = [p \in Procs |-> ""]
    /\ nreq = 0
    /\ notified = {}
    /\ seenAt = [m \in Mangas |-> 0]
    /\ tseen = [p \in Procs |-> 0]
    /\ baseline = [m \in Mangas |-> None]
    /\ scanned = [m \in Mangas |-> FALSE]
    /\ twrote = [p \in Procs |-> FALSE]
    /\ tagain = [p \in Procs |-> FALSE]
    /\ tcalled = [p \in Procs |-> FALSE]
    /\ itemLog = {}
    /\ visited = <<>>

\* ------------------------------------------------------------------ mangadex.rs
\* The upstream source publishes another latest chapter, or falls back to
\* an earlier one: what latest_chapter (mangadex.rs:158-167) answers changes.
upstream_publish(m, ch) ==
    /\ upstream[m] # ch
    /\ upstream' = [upstream EXCEPT ![m] = ch]
    /\ UNCHANGED <<db, attributes, titles, timeVars, scanVars, trackVars, histVars>>

\* ------------------------------------------------------------------ scan.rs
\* What the scan can be seen doing for an item: calling channel.say and
\* db_client.update, and the calls that returned Err.
Events == {"fetch failed", "say", "say failed", "update", "update failed"}

Failures == {"fetch failed", "say failed", "update failed"}

\* The locals of the loops of check_for_updates.
ScanLocals == <<snapshot, idx, chapter, chanIdx, sent>>

\* The item the for loop of check_for_updates is at.
manga == snapshot[idx]

\* Variant: a record without a latest_chapter_id takes the chapter found as
\* its baseline and reports nothing.
chapter_differs_silent(chapterId, latest) ==
    latest # None /\ chapterId # latest

\* Variant: the comparison never finds the two equal.
chapter_differs_always(chapterId, latest) == TRUE

\* scan.rs:30  Some(chapter.id.as_str()) != manga.latest_chapter_id.as_deref()
chapter_differs(chapterId, latest) == chapterId # latest

\* Variant: a failed delivery leaves the loop (send_update_message(..).await?).
next_channel_break(i, ok) == IF ok THEN i + 1 ELSE i + NumChannels + 1

\* scan.rs:31-36  the inner loop goes on to the next channel whatever
\* send_update_message returned (let _ = ...).
next_channel(i, ok) == i + 1

\* Variant: the arm for a chapter number without a title comes first in the
\* match, so that the title of the chapter is never shown.
update_message_no_title(manga_title, attrs, id) ==
    (IF attrs.chapter # <<>>
     THEN <<"New chapter!\n", manga_title, " ch. ", attrs.chapter[1]>>
     ELSE <<"New chapter for ", manga_title, "!">>)
    \o <<"\n">> \o Chapter_url(id)

\* scan.rs:64-78  the text send_update_message passes to channel.say, as the
\* sequence of the pieces the two format! calls put together.
update_message(manga_title, attrs, id) ==
    (IF attrs.chapter # <<>> /\ attrs.title # <<>>
     THEN <<"New chapter!\n", manga_title, " ch. ", attrs.chapter[1], ": ",
            attrs.title[1]>>
     ELSE IF attrs.chapter # <<>>
     THEN <<"New chapter!\n", manga_title, " ch. ", attrs.chapter[1]>>
     ELSE <<"New chapter for ", manga_title, "!">>)
    \o <<"\n">> \o Chapter_url(id)

\* scan.rs:50  Duration::from_millis(250), the unit of the clock.
Pace == 1

\* The time at which the sleep began that the task is in at pc: now when pc
\* is one of the two sleeps (scan.rs:18, 50), as before otherwise.
timer_start(pc) == IF pc \in {"pace", "sleep"} THEN now ELSE sleepFrom

\* Variant: scan calls check_for_updates once and does not loop.
scan_sleep_period_once ==
    /\ scanPc = "sleep"
    /\ cycle = 0
    /\ scanPc' = "start"
    /\ lastStart' = now
    /\ UNCHANGED <<db, upstream, attributes, titles, now, sleepFrom, lastFetch, cycle, ScanLocals, trackVars, histVars>>

\* scan.rs:17-18  one turn of the endless loop: the period's sleep is over.
scan_sleep_period ==
    /\ scanPc = "sleep"
    /\ scanPc' = "start"
    /\ lastStart' = now
    /\ UNCHANGED <<db, upstream, attributes, titles, now, sleepFrom, lastFetch, cycle, ScanLocals, trackVars, histVars>>

\* Variant: an Err of read_many ends the scan task
\* (check_for_updates(..).await? or .unwrap() in scan).
scan_read_many_stops ==
    /\ scanPc = "start"
    /\ cycle < MaxCycles
    /\ cycle' = cycle + 1
    /\ \E ok \in BOOLEAN :
          IF ~ok
          THEN /\ snapshot' = <<>>
               /\ idx' = 0
               /\ scanPc' = "stopped"
          ELSE IF Len(read_many(db)) > 0
          THEN /\ snapshot' = read_many(db)
               /\ idx' = 1
               /\ scanPc' = "fetch"
          ELSE /\ snapshot' = <<>>
               /\ idx' = 0
               /\ scanPc' = "sleep"
    /\ visited' = <<>>
    /\ sleepFrom' = timer_start(scanPc')
    /\ UNCHANGED <<db, upstream, attributes, titles, now, lastStart, lastFetch, chapter, chanIdx, sent, trackVars,
                   notified, seenAt, tseen, baseline, scanned, twrote, tagain,
                   tcalled, itemLog>>

\* scan.rs:28  db_client.read_many::<Manga>(doc! {}).await?
\* An Err returns from check_for_updates; scan ignores it and sleeps.
scan_read_many ==
    /\ scanPc = "start"
    /\ cycle < MaxCycles
    /\ cycle' = cycle + 1
    /\ \E ok \in BOOLEAN :
          IF ok /\ Len(read_many(db)) > 0
          THEN /\ snapshot' = read_many(db)
               /\ idx' = 1
               /\ scanPc' = "fetch"
          ELSE /\ snapshot' = <<>>
               /\ idx' = 0
               /\ scanPc' = "sleep"
    /\ visited' = <<>>
    /\ sleepFrom' = timer_start(scanPc')
    /\ UNCHANGED <<db, upstream, attributes, titles, now, lastStart, lastFetch, chapter, chanIdx, sent, trackVars,
                   notified, seenAt, tseen, baseline, scanned, twrote, tagain,
                   tcalled, itemLog>>

\* Variant: the Err of latest_chapter leaves check_for_updates
\* (mangadex::latest_chapter(&manga.id).await?).
scan_latest_chapter_returns ==
    /\ scanPc = "fetch"
    /\ \E ok \in BOOLEAN :
          /\ chapter' = IF ok THEN upstream[manga.id] ELSE None
          /\ itemLog' = {}
          /\ IF ~ok
             THEN /\ scanPc' = "sleep"
                  /\ snapshot' = <<>>
                  /\ idx' = 0
                  /\ UNCHANGED chanIdx
             ELSE /\ UNCHANGED <<snapshot, idx>>
                  /\ IF /\ chapter' \in Chapters
                        /\ chapter_differs(chapter', manga.latest_chapter_id)
                     THEN /\ chanIdx' = 1
                          /\ scanPc' = IF Len(manga.channels) = 0
                                       THEN "update" ELSE "send"
                     ELSE /\ scanPc' = "pace"
                          /\ UNCHANGED chanIdx
    /\ lastFetch' = now
    /\ sleepFrom' = timer_start(scanPc')
    /\ UNCHANGED <<db, upstream, attributes, titles, now, lastStart, cycle, sent,
                   trackVars, notified, seenAt, tseen, baseline, scanned,
                   twrote, tagain, tcalled, visited>>

\* Variant: an Err of latest_chapter is taken for a change of the latest
\* chapter, and the record is written.
scan_latest_chapter_writes ==
    /\ scanPc = "fetch"
    /\ \E ok \in BOOLEAN :
          /\ chapter' = IF ok THEN upstream[manga.id] ELSE Err
          /\ itemLog' = IF ok THEN {} ELSE {"fetch failed"}
          /\ IF /\ chapter' \in Chapters
                /\ chapter_differs(chapter', manga.latest_chapter_id)
             THEN /\ chanIdx' = 1
                  /\ scanPc' = IF Len(manga.channels) = 0 THEN "update" ELSE "send"
             ELSE /\ scanPc' = IF ok THEN "pace" ELSE "update"
                  /\ UNCHANGED chanIdx
    /\ lastFetch' = now
    /\ sleepFrom' = timer_start(scanPc')
    /\ UNCHANGED <<db, upstream, attributes, titles, now, lastStart, cycle, snapshot, idx, sent,
                   trackVars, notified, seenAt, tseen, baseline, scanned,
                   twrote, tagain, tcalled, visited>>

\* scan.rs:16-18, 28  the turns of the endless loop that come after the
\* first MaxCycles, which the history does not number any further.
scan_read_many_on ==
    /\ scanPc = "start"
    /\ cycle = MaxCycles
    /\ \E ok \in BOOLEAN :
          IF ok /\ Len(read_many(db)) > 0
          THEN /\ snapshot' = read_many(db)
               /\ idx' = 1
               /\ scanPc' = "fetch"
          ELSE /\ snapshot' = <<>>
               /\ idx' = 0
               /\ scanPc' = "sleep"
    /\ visited' = <<>>
    /\ sleepFrom' = timer_start(scanPc')
    /\ UNCHANGED <<db, upstream, attributes, titles, now, lastStart, lastFetch, cycle, chapter, chanIdx, sent,
                   trackVars, notified, seenAt, tseen, baseline, scanned,
                   twrote, tagain, tcalled, itemLog>>

\* Variant: an Err of latest_chapter moves on to the next item at once
\* (a `continue` ahead of the delay of scan.rs:50).
scan_latest_chapter_continue ==
    /\ scanPc = "fetch"
    /\ \E ok \in BOOLEAN :
          IF ok
          THEN /\ chapter' = upstream[manga.id]
               /\ itemLog' = {}
               /\ IF /\ chapter' \in Chapters
                     /\ chapter_differs(chapter', manga.latest_chapter_id)
                  THEN /\ chanIdx' = 1
                       /\ scanPc' = IF Len(manga.channels) = 0
                                    THEN "update" ELSE "send"
                  ELSE /\ scanPc' = "pace"
                       /\ UNCHANGED chanIdx
               /\ UNCHANGED <<snapshot, idx, scanned, visited>>
          ELSE /\ chapter' = None
               /\ itemLog' = {}
               /\ scanned' = [scanned EXCEPT ![manga.id] = TRUE]
               /\ visited' = Append(visited, <<manga.id, TRUE>>)
               /\ IF idx < Len(snapshot)
                  THEN /\ idx' = idx + 1
                       /\ scanPc' = "fetch"
                       /\ UNCHANGED snapshot
                  ELSE /\ idx' = 0
                       /\ snapshot' = <<>>
                       /\ scanPc' = "sleep"
               /\ UNCHANGED chanIdx
    /\ lastFetch' = now
    /\ sleepFrom' = timer_start(scanPc')
    /\ UNCHANGED <<db, upstream, attributes, titles, now, lastStart, cycle, sent,
                   trackVars, notified, seenAt, tseen, baseline,
                   twrote, tagain, tcalled>>

\* scan.rs:29-30  mangadex::latest_chapter(&manga.id).await and the comparison
\* with the snapshot's latest_chapter_id.
scan_latest_chapter ==
    /\ scanPc = "fetch"
    /\ \E ok \in BOOLEAN :
          /\ chapter' = IF ok THEN upstream[manga.id] ELSE Err
          /\ itemLog' = IF ok THEN {} ELSE {"fetch failed"}
          /\ IF /\ chapter' \in Chapters
                /\ chapter_differs(chapter', manga.latest_chapter_id)
             THEN /\ chanIdx' = 1
                  /\ scanPc' = IF Len(manga.channels) = 0 THEN "update" ELSE "send"
             ELSE /\ scanPc' = "pace"
                  /\ UNCHANGED chanIdx
    /\ lastFetch' = now
    /\ sleepFrom' = timer_start(scanPc')
    /\ UNCHANGED <<db, upstream, attributes, titles, now, lastStart, cycle, snapshot, idx, sent,
                   trackVars, notified, seenAt, tseen, baseline, scanned,
                   twrote, tagain, tcalled, visited>>

\* A fan-out that reads the record again before every message, so that it
\* follows the live subscriber list instead of the list read by read_many.
scan_send_update_message_live ==
    /\ scanPc = "send"
    /\ chanIdx <= Len(db[manga.id].channels)
    /\ \E ok \in BOOLEAN :
          /\ sent' = Append(sent,
                            <<db[manga.id].channels[chanIdx], ok,
                              update_message(manga.title, attributes[chapter],
                                             chapter)>>)
          /\ chanIdx' = next_channel(chanIdx, ok)
          /\ itemLog' = itemLog \cup {"say"}
                           \cup (IF ok THEN {} ELSE {"say failed"})
          /\ scanPc' = IF next_channel(chanIdx, ok) > Len(db[manga.id].channels)
                       THEN "update" ELSE "send"
    /\ notified' = notified \cup
                     {<<manga.id, chapter, db[manga.id].channels[chanIdx], cycle>>}
    /\ UNCHANGED <<db, upstream, attributes, titles, timeVars, cycle, snapshot, idx, chapter,
                   trackVars, seenAt, tseen, baseline, scanned, twrote, tagain,
                   tcalled, visited>>

\* scan.rs:35, 58-80  send_update_message to manga.channels[chanIdx]; the
\* result of channel.say is dropped by the caller.
scan_send_update_message ==
    /\ scanPc = "send"
    /\ \E ok \in BOOLEAN :
          /\ sent' = Append(sent,
                            <<manga.channels[chanIdx], ok,
                              update_message(manga.title, attributes[chapter],
                                             chapter)>>)
          /\ chanIdx' = next_channel(chanIdx, ok)
          /\ itemLog' = itemLog \cup {"say"}
                           \cup (IF ok THEN {} ELSE {"say failed"})
          /\ scanPc' = IF next_channel(chanIdx, ok) > Len(manga.channels)
                       THEN "update" ELSE "send"
    /\ notified' = notified \cup
                     {<<manga.id, chapter, manga.channels[chanIdx], cycle>>}
    /\ UNCHANGED <<db, upstream, attributes, titles, timeVars, cycle, snapshot, idx, chapter,
                   trackVars, seenAt, tseen, baseline, scanned, twrote, tagain,
                   tcalled, visited>>

\* A scan that records the chapter only when every message was delivered.
scan_update_if_delivered ==
    /\ scanPc = "update"
    /\ \E ok \in BOOLEAN :
          IF "say failed" \in itemLog
          THEN /\ itemLog' = itemLog
               /\ UNCHANGED <<db, seenAt>>
          ELSE IF ok
          THEN /\ db' = update_set_latest(db, manga.id, chapter)
               /\ seenAt' = [seenAt EXCEPT ![manga.id] = cycle]
               /\ itemLog' = itemLog \cup {"update"}
          ELSE /\ itemLog' = itemLog \cup {"update", "update failed"}
               /\ UNCHANGED <<db, seenAt>>
    /\ scanPc' = "pace"
    /\ chanIdx' = 0
    /\ sent' = <<>>
    /\ sleepFrom' = timer_start(scanPc')
    /\ UNCHANGED <<upstream, attributes, titles, now, lastStart, lastFetch, cycle, snapshot, idx, chapter,
                   trackVars, notified, tseen, baseline, scanned, twrote, tagain,
                   tcalled, visited>>

\* A scan that writes back the whole record it read, with the new chapter.
scan_update_whole ==
    /\ scanPc = "update"
    /\ \E ok \in BOOLEAN :
          IF ok
          THEN /\ db' = update_document(db, manga.id,
                                        [manga EXCEPT !.latest_chapter_id = chapter])
               /\ seenAt' = [seenAt EXCEPT ![manga.id] = cycle]
               /\ itemLog' = itemLog \cup {"update"}
          ELSE /\ itemLog' = itemLog \cup {"update", "update failed"}
               /\ UNCHANGED <<db, seenAt>>
    /\ scanPc' = "pace"
    /\ chanIdx' = 0
    /\ sent' = <<>>
    /\ sleepFrom' = timer_start(scanPc')
    /\ UNCHANGED <<upstream, attributes, titles, now, lastStart, lastFetch, cycle, snapshot, idx, chapter,
                   trackVars, notified, tseen, baseline, scanned, twrote, tagain,
                   tcalled, visited>>

\* scan.rs:38-43  let _ = db_client.update({_id}, {$set: {latest_chapter_id}})
scan_update ==
    /\ scanPc = "update"
    /\ \E ok \in BOOLEAN :
          IF ok
          THEN /\ db' = update_set_latest(db, manga.id, chapter)
               /\ seenAt' = [seenAt EXCEPT ![manga.id] = cycle]
               /\ itemLog' = itemLog \cup {"update"}
          ELSE /\ itemLog' = itemLog \cup {"update", "update failed"}
               /\ UNCHANGED <<db, seenAt>>
    /\ scanPc' = "pace"
    /\ chanIdx' = 0
    /\ sent' = <<>>
    /\ sleepFrom' = timer_start(scanPc')
    /\ UNCHANGED <<upstream, attributes, titles, now, lastStart, lastFetch, cycle, snapshot, idx, chapter,
                   trackVars, notified, tseen, baseline, scanned, twrote, tagain,
                   tcalled, visited>>

\* scan.rs:50  tokio::time::sleep(250ms), then the next item or the end of
\* check_for_updates and the period's sleep (scan.rs:18).
scan_sleep_item ==
    /\ scanPc = "pace"
    /\ scanned' = [scanned EXCEPT ![manga.id] = TRUE]
    /\ visited' = Append(visited, <<manga.id, itemLog \cap Failures # {}>>)
    /\ itemLog' = {}
    /\ chapter' = None
    /\ IF idx < Len(snapshot)
       THEN /\ idx' = idx + 1
            /\ scanPc' = "fetch"
            /\ UNCHANGED snapshot
       ELSE /\ idx' = 0
            /\ snapshot' = <<>>
            /\ scanPc' = "sleep"
    /\ sleepFrom' = timer_start(scanPc')
    /\ UNCHANGED <<db, upstream, attributes, titles, now, lastStart, lastFetch, cycle, chanIdx, sent, trackVars,
                   notified, seenAt, tseen, baseline, twrote, tagain, tcalled>>

\* Time passes while the scan task is suspended at an await. A sleep
\* (scan.rs:18, 50) ends when its duration has passed, so the clock does not
\* run beyond the end of the sleep the task is in.
tick ==
    /\ now < MaxTime
    /\ scanPc = "pace" => now < sleepFrom + Pace
    /\ scanPc = "sleep" => now < sleepFrom + Period
    /\ now' = now + 1
    /\ UNCHANGED <<db, upstream, attributes, titles, lastStart, sleepFrom,
                   lastFetch, scanVars, trackVars, histVars>>

\* ------------------------------------------------------------------ track.rs
\* track.rs:102  manga.channels.push(channel_id)
push_channel(doc, c) == [doc EXCEPT !.channels = Append(doc.channels, c)]

\* Variant: the record is inserted before the channel is put in its list.
new_manga_no_channel(id, title, latest, c) == Manga(id, title, latest, <<>>)

\* Variant: the record is inserted without the latest chapter.
new_manga_no_baseline(id, title, latest, c) == Manga(id, title, None, <<c>>)

\* track.rs:119-124  the Manga a first subscription inserts.
new_manga(id, title, latest, c) == Manga(id, title, latest, <<c>>)

\* Variant: the test for an existing subscription is missing.
already_tracked_never(doc, c) == FALSE

\* track.rs:91  manga.channels.contains(&channel_id)
already_tracked(doc, c) == Contains(doc.channels, c)

\* Track::run returns Err(why): its locals are dropped.
Fail(p, why) ==
    /\ tpc' = [tpc EXCEPT ![p] = "failed"]
    /\ terr' = [terr EXCEPT ![p] = why]
    /\ tdoc' = [tdoc EXCEPT ![p] = NoDoc]
    /\ tseen' = [tseen EXCEPT ![p] = 0]

\* discord/mod.rs:50-59, track.rs:63-84  an incoming "track" interaction
\* starts Track::run with the value of its option on the invoking channel.
\* An option that names no manga makes run return
\* Err(CommandError::ArgumentError) before anything else is awaited.
Track_run(p, r, c) ==
    /\ tpc[p] \in {"idle", "done", "failed"}
    /\ nreq < MaxRequests
    /\ nreq' = nreq + 1
    /\ tref' = [tref EXCEPT ![p] = r]
    /\ treq' = [treq EXCEPT ![p] = <<manga_id_from_option(r), c>>]
    /\ IF manga_id_from_option(r) = None
       THEN /\ tpc' = [tpc EXCEPT ![p] = "failed"]
            /\ terr' = [terr EXCEPT ![p] = "argument"]
       ELSE /\ tpc' = [tpc EXCEPT ![p] = "read"]
            /\ terr' = [terr EXCEPT ![p] = ""]
    /\ tdoc' = [tdoc EXCEPT ![p] = NoDoc]
    /\ treply' = [treply EXCEPT ![p] = ""]
    /\ tseen' = [tseen EXCEPT ![p] = 0]
    /\ twrote' = [twrote EXCEPT ![p] = FALSE]
    /\ tagain' = [tagain EXCEPT ![p] =
                    (tpc[p] = "done"
                     /\ treq[p] = <<manga_id_from_option(r), c>>)]
    /\ tcalled' = [tcalled EXCEPT ![p] = FALSE]
    /\ UNCHANGED <<db, upstream, attributes, titles, timeVars, scanVars, scanHist, notified, seenAt, baseline,
                   scanned>>

\* track.rs:85-102  db_client.read(...).await?, the contains test, the push.
Track_read(p) ==
    /\ tpc[p] = "read"
    /\ \E ok \in BOOLEAN :
          IF ~ok
          THEN Fail(p, "store")
          ELSE LET d == read(db, treq[p][1]) IN
               IF ~d.exists
               THEN /\ tpc' = [tpc EXCEPT ![p] = "title"]
                    /\ UNCHANGED <<terr, tdoc, tseen>>
               ELSE IF already_tracked(d, treq[p][2])
               THEN /\ tpc' = [tpc EXCEPT ![p] = "say_already"]
                    /\ UNCHANGED <<terr, tdoc, tseen>>
               ELSE /\ tpc' = [tpc EXCEPT ![p] = "update"]
                    /\ tdoc' = [tdoc EXCEPT ![p] = push_channel(d, treq[p][2])]
                    /\ tseen' = [tseen EXCEPT ![p] = seenAt[treq[p][1]]]
                    /\ UNCHANGED terr
    /\ tcalled' = [tcalled EXCEPT ![p] = TRUE]
    /\ UNCHANGED <<db, upstream, attributes, titles, timeVars, scanVars, scanHist, tref, treq, treply, nreq, notified,
                   seenAt, baseline, scanned, twrote, tagain>>

\* track.rs:103-105  db_client.update(doc! {_id}, manga).await?
Track_update(p) ==
    /\ tpc[p] = "update"
    /\ \E ok \in BOOLEAN :
          IF ok
          THEN /\ db' = update_document(db, treq[p][1], tdoc[p])
               /\ tpc' = [tpc EXCEPT ![p] = "say_now"]
               /\ twrote' = [twrote EXCEPT ![p] = (db' # db)]
               /\ seenAt' = IF db'[treq[p][1]].latest_chapter_id
                               # db[treq[p][1]].latest_chapter_id
                            THEN [seenAt EXCEPT ![treq[p][1]] = tseen[p]]
                            ELSE seenAt
               /\ UNCHANGED <<terr, tdoc, tseen>>
          ELSE /\ Fail(p, "store")
               /\ UNCHANGED <<db, twrote, seenAt>>
    /\ UNCHANGED <<upstream, attributes, titles, timeVars, scanVars, scanHist, tref, treq, treply, nreq, notified,
                   baseline, scanned, tagain, tcalled>>

\* Variant: the record is inserted as soon as the title is known, before the
\* latest chapter is fetched.
Track_english_title_creates(p) ==
    /\ tpc[p] = "title"
    /\ \E res \in {"err", english_title(treq[p][1])} :
          IF res = "err"
          THEN /\ Fail(p, "upstream")
               /\ UNCHANGED <<db, twrote>>
          ELSE /\ tpc' = [tpc EXCEPT ![p] = "latest"]
               /\ tdoc' = [tdoc EXCEPT ![p] = [NoDoc EXCEPT !.title = TitleOrId(res)]]
               /\ db' = IF CreateConflicts(db, [id |-> treq[p][1]])
                        THEN db
                        ELSE create(db, new_manga(treq[p][1], TitleOrId(res),
                                                  None, treq[p][2]))
               /\ twrote' = [twrote EXCEPT ![p] = (db' # db)]
               /\ UNCHANGED <<terr, tseen>>
    /\ UNCHANGED <<upstream, attributes, titles, timeVars, scanVars, scanHist, tref, treq, treply, nreq, notified,
                   seenAt, baseline, scanned, tagain, tcalled>>

\* track.rs:111-113  mangadex::english_title(&manga_id).await?
\*                      .unwrap_or_else(|| manga_id.clone())
\* "" stands for Ok(None).
Track_english_title(p) ==
    /\ tpc[p] = "title"
    /\ \E res \in {"err", english_title(treq[p][1])} :
          IF res = "err"
          THEN Fail(p, "upstream")
          ELSE /\ tpc' = [tpc EXCEPT ![p] = "latest"]
               /\ tdoc' = [tdoc EXCEPT ![p] = [NoDoc EXCEPT !.title = TitleOrId(res)]]
               /\ UNCHANGED <<terr, tseen>>
    /\ UNCHANGED <<db, upstream, attributes, titles, timeVars, scanVars, scanHist, tref, treq, treply, nreq, notified,
                   seenAt, baseline, scanned, twrote, tagain, tcalled>>

\* track.rs:115-124  mangadex::latest_chapter(&manga_id).await?.map(|c| c.id)
\* and the construction of the Manga to insert.
Track_latest_chapter(p) ==
    /\ tpc[p] = "latest"
    /\ \E ok \in BOOLEAN :
          IF ok
          THEN /\ tpc' = [tpc EXCEPT ![p] = "create"]
               /\ tdoc' = [tdoc EXCEPT ![p] =
                             new_manga(treq[p][1], tdoc[p].title,
                                       upstream[treq[p][1]], treq[p][2])]
               /\ UNCHANGED <<terr, tseen>>
          ELSE Fail(p, "upstream")
    /\ UNCHANGED <<db, upstream, attributes, titles, timeVars, scanVars, scanHist, tref, treq, treply, nreq, notified,
                   seenAt, baseline, scanned, twrote, tagain, tcalled>>

\* track.rs:126  self.db_client.create(manga).await?
\* A duplicate _id is an Err like any other: run returns it.
Track_create(p) ==
    /\ tpc[p] = "create"
    /\ \E ok \in BOOLEAN :
          IF CreateConflicts(db, tdoc[p])
          THEN /\ Fail(p, "conflict")
               /\ UNCHANGED <<db, twrote, seenAt, baseline>>
          ELSE IF ok
          THEN /\ db' = create(db, tdoc[p])
               /\ tpc' = [tpc EXCEPT ![p] = "say_now"]
               /\ twrote' = [twrote EXCEPT ![p] = TRUE]
               /\ seenAt' = [seenAt EXCEPT ![treq[p][1]] = cycle]
               /\ baseline' = [baseline EXCEPT ![treq[p][1]] =
                                 tdoc[p].latest_chapter_id]
               /\ UNCHANGED <<terr, tdoc, tseen>>
          ELSE /\ Fail(p, "store")
               /\ UNCHANGED <<db, twrote, seenAt, baseline>>
    /\ UNCHANGED <<upstream, attributes, titles, timeVars, scanVars, scanHist, tref, treq, treply, nreq, notified,
                   scanned, tagain, tcalled>>

\* track.rs:93-97, 108, 129  say(...).await?  (create_interaction_response),
\* then Ok(()).
Track_say(p) ==
    /\ tpc[p] \in {"say_already", "say_now"}
    /\ \E ok \in BOOLEAN :
          IF ok
          THEN /\ tpc' = [tpc EXCEPT ![p] = "done"]
               /\ treply' = [treply EXCEPT ![p] =
                               IF tpc[p] = "say_already" THEN "already" ELSE "now"]
               /\ tdoc' = [tdoc EXCEPT ![p] = NoDoc]
               /\ tseen' = [tseen EXCEPT ![p] = 0]
               /\ UNCHANGED terr
          ELSE /\ Fail(p, "reply")
               /\ UNCHANGED treply
    /\ UNCHANGED <<db, upstream, attributes, titles, timeVars, scanVars, scanHist, tref, treq, nreq, notified,
                   seenAt, baseline, scanned, twrote, tagain, tcalled>>

\* ------------------------------------------------------------------ Spec
ScanNext ==
    \/ scan_sleep_period
    \/ scan_read_many
    \/ scan_latest_chapter
    \/ scan_send_update_message
    \/ scan_update
    \/ scan_sleep_item

\* The whole program: the scan task, any number of concurrent track
\* commands, and the upstream source.
Next ==
    \/ \E m \in TrackIds, ch \in Chapters : upstream_publish(m, ch)
    \/ ScanNext
    \/ \E p \in Procs, r \in TrackRefs, c \in Channels : Track_run(p, r, c)
    \/ \E p \in Procs : Track_read(p)
    \/ \E p \in Procs : Track_update(p)
    \/ \E p \in Procs : Track_english_title(p)
    \/ \E p \in Procs : Track_latest_chapter(p)
    \/ \E p \in Procs : Track_create(p)
    \/ \E p \in Procs : Track_say(p)

Spec == Init /\ [][Next]_vars

\* Track commands that arrive one after the other (one interaction at a
\* time), with the scan task and the upstream source running alongside.
SeqNext ==
    \/ \E m \in TrackIds, ch \in Chapters : upstream_publish(m, ch)
    \/ ScanNext
    \/ \E r \in TrackRefs, c \in Channels : Track_run(1, r, c)
    \/ Track_read(1)
    \/ Track_update(1)
    \/ Track_english_title(1)
    \/ Track_latest_chapter(1)
    \/ Track_create(1)
    \/ Track_say(1)

SeqSpec == Init /\ [][SeqNext]_vars

\* Track commands with every kind of option value, one at a time.
RefNext ==
    \/ \E r \in References, c \in Channels : Track_run(1, r, c)
    \/ Track_read(1)
    \/ Track_update(1)
    \/ Track_english_title(1)
    \/ Track_latest_chapter(1)
    \/ Track_create(1)
    \/ Track_say(1)

RefSpec == Init /\ [][RefNext]_vars

\* The scan task alone over a store that earlier track commands populated:
\* every manga of the world has a record.
PopulatedStores ==
    {[m \in Mangas |-> Manga(m, "T", l[m], s[m])] :
        l \in [Mangas -> {None} \cup Chapters],
        s \in [Mangas -> {<<1>>, <<1, 2>>}]}

ScanInit ==
    /\ db \in PopulatedStores
    /\ upstream \in [Mangas -> {None} \cup Chapters]
    /\ attributes = [ch \in Chapters |-> NumberedChapter]
    /\ titles = [m \in Mangas |-> TitleMap({"en"})]
    /\ scanPc = "start"
    /\ cycle = 0
    /\ now = 0
    /\ lastStart = 0
    /\ sleepFrom = 0
    /\ lastFetch = -1
    /\ snapshot = <<>>
    /\ idx = 0
    /\ chapter = None
    /\ chanIdx = 0
    /\ sent = <<>>
    /\ tpc = [p \in Procs |-> "idle"]
    /\ tref = [p \in Procs |-> NoRef]
    /\ treq = [p \in Procs |-> <<0, 0>>]
    /\ tdoc = [p \in Procs |-> NoDoc]
    /\ terr = [p \in Procs |-> ""]
    /\ treply = [p \in Procs |-> ""]
    /\ nreq = 0
    /\ notified = {}
    /\ seenAt = [m \in Mangas |-> 0]
    /\ tseen = [p \in Procs |-> 0]
    /\ baseline = [m \in Mangas |-> None]
    /\ scanned = [m \in Mangas |-> FALSE]
    /\ twrote = [p \in Procs |-> FALSE]
    /\ tagain = [p \in Procs |-> FALSE]
    /\ tcalled = [p \in Procs |-> FALSE]
    /\ itemLog = {}
    /\ visited = <<>>

ScanSpecNext ==
    \/ \E m \in Mangas, ch \in Chapters : upstream_publish(m, ch)
    \/ ScanNext

ScanSpec == ScanInit /\ [][ScanSpecNext]_vars

\* The tasks before their first step, and the histories empty.
Idle ==
    /\ scanPc = "start"
    /\ cycle = 0
    /\ now = 0
    /\ lastStart = 0
    /\ sleepFrom = 0
    /\ lastFetch = -1
    /\ snapshot = <<>>
    /\ idx = 0
    /\ chapter = None
    /\ chanIdx = 0
    /\ sent = <<>>
    /\ tpc = [p \in Procs |-> "idle"]
    /\ tref = [p \in Procs |-> NoRef]
    /\ treq = [p \in Procs |-> <<0, 0>>]
    /\ tdoc = [p \in Procs |-> NoDoc]
    /\ terr = [p \in Procs |-> ""]
    /\ treply = [p \in Procs |-> ""]
    /\ nreq = 0
    /\ notified = {}
    /\ seenAt = [m \in Mangas |-> 0]
    /\ tseen = [p \in Procs |-> 0]
    /\ baseline = [m \in Mangas |-> None]
    /\ scanned = [m \in Mangas |-> FALSE]
    /\ twrote = [p \in Procs |-> FALSE]
    /\ tagain = [p \in Procs |-> FALSE]
    /\ tcalled = [p \in Procs |-> FALSE]
    /\ itemLog = {}
    /\ visited = <<>>

\* The stores in which the mangas of TrackIds, and no others, have a record:
\* what track commands (track.rs:111-126, 102-105) and scans leave behind.
TrackedStores ==
    {[m \in Mangas |-> IF m \in TrackIds THEN Manga(m, t[m], l[m], s[m])
                                          ELSE NoDoc] :
        t \in [TrackIds -> {"T", "id"}],
        l \in [TrackIds -> {None} \cup Chapters],
        s \in [TrackIds -> {<<1>>, <<1, 2>>}]}

\* The scan task over such a store, the chapters having any attributes.
MsgInit ==
    /\ db \in TrackedStores
    /\ upstream \in [Mangas -> {None} \cup Chapters]
    /\ \A m \in Mangas \ TrackIds : upstream[m] = None
    /\ attributes \in [Chapters -> AttributeValues]
    /\ titles = [m \in Mangas |-> TitleMap({"en"})]
    /\ Idle

MsgSpec == MsgInit /\ [][ScanNext]_vars

\* A channel other than those whose commands the model follows: its command
\* created the records of AddInit.
FirstChannel == NumChannels + 1

\* Concurrent track commands for mangas that FirstChannel already tracks.
AddInit ==
    /\ db \in {[m \in Mangas |-> IF m \in TrackIds
                                  THEN Manga(m, "T", l[m], <<FirstChannel>>)
                                  ELSE NoDoc] :
                  l \in [TrackIds -> {None} \cup Chapters]}
    /\ upstream \in [Mangas -> {None} \cup Chapters]
    /\ \A m \in Mangas \ TrackIds : upstream[m] = None
    /\ attributes = [ch \in Chapters |-> NumberedChapter]
    /\ titles = [m \in Mangas |-> TitleMap({"en"})]
    /\ Idle

AddNext ==
    \/ \E p \in Procs, r \in TrackRefs, c \in Channels : Track_run(p, r, c)
    \/ \E p \in Procs : Track_read(p)
    \/ \E p \in Procs : Track_update(p)
    \/ \E p \in Procs : Track_say(p)

AddSpec == AddInit /\ [][AddNext]_vars

\* Track commands, and MangaDex publishing chapters meanwhile, for mangas
\* that have any of the titles a manga can have.
TitleInit ==
    /\ db = [m \in Mangas |-> NoDoc]
    /\ upstream \in [Mangas -> {None} \cup Chapters]
    /\ \A m \in Mangas \ TrackIds : upstream[m] = None
    /\ attributes = [ch \in Chapters |-> NumberedChapter]
    /\ titles \in [Mangas -> TitleMaps]
    /\ \A m \in Mangas \ TrackIds : titles[m] = TitleMap({"en"})
    /\ Idle

TitleNext ==
    \/ \E m \in TrackIds, ch \in {None} \cup Chapters : upstream_publish(m, ch)
    \/ \E p \in Procs, r \in TrackRefs, c \in Channels : Track_run(p, r, c)
    \/ \E p \in Procs : Track_read(p)
    \/ \E p \in Procs : Track_update(p)
    \/ \E p \in Procs : Track_english_title(p)
    \/ \E p \in Procs : Track_latest_chapter(p)
    \/ \E p \in Procs : Track_create(p)
    \/ \E p \in Procs : Track_say(p)

TitleSpec == TitleInit /\ [][TitleNext]_vars

\* The scan task under the clock: every record is there from the start, no
\* track command runs, MangaDex reports the same chapters throughout, and
\* the two sleeps of scan.rs last Pace and Period.
TimeInit ==
    /\ db = [m \in Mangas |-> Manga(m, "T", None, <<1>>)]
    /\ upstream \in [Mangas -> {None} \cup Chapters]
    /\ attributes = [ch \in Chapters |-> NumberedChapter]
    /\ titles = [m \in Mangas |-> TitleMap({"en"})]
    /\ Idle

TimeNext ==
    \/ tick
    \/ scan_read_many
    \/ scan_latest_chapter
    \/ scan_send_update_message
    \/ scan_update
    \/ (scan_sleep_item /\ now >= sleepFrom + Pace)
    \/ (scan_sleep_period /\ now >= sleepFrom + Period)

TimeSpec == TimeInit /\ [][TimeNext]_vars

\* The calls of the scan for manga m that return Ok.
FetchOk(m) == scan_latest_chapter /\ manga.id = m /\ chapter' # Err

ReadManyOk == (scan_read_many \/ scan_read_many_on) /\ scanPc' = "fetch"

UpdateOk(m) == scan_update /\ manga.id = m /\ "update failed" \notin itemLog'

\* The endless scan over a store of tracked mangas while MangaDex keeps
\* reporting the same latest chapters. The task is never starved (every
\* await of scan.rs returns), and latest_chapter, called again and again for
\* a manga, does not return Err every time.
LiveInit ==
    /\ db \in TrackedStores
    /\ upstream \in [Mangas -> {None} \cup Chapters]
    /\ \A m \in Mangas \ TrackIds : upstream[m] = None
    /\ attributes = [ch \in Chapters |-> NumberedChapter]
    /\ titles = [m \in Mangas |-> TitleMap({"en"})]
    /\ Idle

LiveNext == ScanNext \/ scan_read_many_on

LiveSpec ==
    /\ LiveInit
    /\ [][LiveNext]_vars
    /\ WF_vars(LiveNext)
    /\ \A m \in TrackIds : SF_vars(FetchOk(m))

\* ------------------------------------------------------------------ claims
\* The channels of the delivery attempts made for the current item.
Attempted == [i \in 1..Len(sent) |-> sent[i][1]]

SameUpdate(x, y) == x[1] = y[1] /\ x[2] = y[2] /\ x[3] = y[3]

\* C1: each subscriber is notified exactly once per update: for a given
\* (manga, chapter, channel) there is never a second notification attempt in
\* a later scan cycle.
C1_NotifiedOncePerUpdate ==
    \A x \in notified, y \in notified : SameUpdate(x, y) => x[4] = y[4]

\* C2: latest_chapter_id of a record is never rolled back: whenever it
\* changes, the new value was observed from upstream later than the value it
\* replaces.
C2_LatestNeverRolledBack ==
    [][\A m \in Mangas :
          (/\ db[m].exists
           /\ db'[m].exists
           /\ db'[m].latest_chapter_id # db[m].latest_chapter_id)
          => seenAt'[m] > seenAt[m]]_vars

\* C3 (as claimed): a scan never notifies about the chapter it finds for a
\* record whose latest_chapter_id is absent.
C3_AbsentBaselineIsSilent ==
    scanPc = "send" => manga.latest_chapter_id # None

\* C3 (amended): when a scan processes a record whose latest_chapter_id is
\* absent and upstream returns chapter U, a notification about U has been
\* attempted for every channel of the snapshot by the time the scan goes on
\* to write U. The baseline that is stored silently is the one the track
\* command stores when it creates the record: nothing is notified about a
\* record before a scan processes it.
C3_AbsentBaselineIsReported ==
    /\ (/\ scanPc \in {"update", "pace"}
        /\ manga.latest_chapter_id = None
        /\ chapter \in Chapters)
       => \A i \in 1..Len(manga.channels) :
             <<manga.id, chapter, manga.channels[i], cycle>> \in notified
    /\ \A m \in Mangas :
          (/\ db[m].exists
           /\ ~scanned[m]
           /\ ~(scanPc \in {"send", "update", "pace"} /\ manga.id = m))
          => \A x \in notified : x[1] # m

C3_Witness ==
    /\ scanPc = "pace"
    /\ manga.latest_chapter_id = None
    /\ chapter \in Chapters
    /\ Len(manga.channels) = 2
    /\ db[manga.id].latest_chapter_id = chapter

\* C4: the first scan of a record that a track command created with baseline
\* B makes no notification about B: while upstream still reports B the item
\* goes straight to the pacing delay with no delivery attempt.
C4_FirstScanSkipsBaseline ==
    (/\ scanPc \in {"send", "update", "pace"}
     /\ ~scanned[manga.id]
     /\ baseline[manga.id] \in Chapters
     /\ chapter = baseline[manga.id])
    => /\ scanPc = "pace"
       /\ sent = <<>>
       /\ \A x \in notified : ~(x[1] = manga.id /\ x[2] = baseline[manga.id])

C4_Witness ==
    /\ scanPc = "pace"
    /\ ~scanned[manga.id]
    /\ baseline[manga.id] \in Chapters
    /\ chapter = baseline[manga.id]
    /\ upstream[manga.id] = baseline[manga.id]

\* C5: for a record created while upstream had no chapters, a scan that finds
\* chapter C1 notifies once and leaves latest_chapter_id = C1, and the next
\* scan makes no further notification about C1.
C5_OneEventThenQuiet ==
    \A m \in Mangas :
       (db[m].exists /\ baseline[m] = None)
       => /\ (scanPc = "pace" /\ manga.id = m /\ chapter \in Chapters
                /\ chapter # manga.latest_chapter_id)
             => db[m].latest_chapter_id = chapter
          /\ \A x \in notified, y \in notified :
                (x[1] = m /\ SameUpdate(x, y)) => y[4] # x[4] + 1

\* C6: a track command that repeats, for the same manga and the same channel,
\* the command served just before it (which returned Ok) takes neither the
\* update nor the create path, replies "already tracked" when it replies, and
\* finds the channel exactly once in the record.
C6_TrackIdempotent ==
    \A p \in Procs :
       tagain[p]
       => /\ tpc[p] \notin {"update", "title", "latest", "create", "say_now"}
          /\ ~twrote[p]
          /\ tpc[p] = "done" => treply[p] = "already"
          /\ Count(db[treq[p][1]].channels, treq[p][2]) = 1

C6_Witness ==
    \E p \in Procs :
       /\ tagain[p]
       /\ tpc[p] = "done"
       /\ treply[p] = "already"
       /\ Count(db[treq[p][1]].channels, treq[p][2]) = 1

\* C7: when an update is detected, exactly one delivery attempt is made for
\* every channel of the snapshot, in order, whatever the outcome of each
\* attempt: a failed attempt is followed by the attempt for the next channel
\* and is not repeated.
C7_FanoutComplete ==
    /\ scanPc = "send"
       => Attempted = SubSeq(manga.channels, 1, chanIdx - 1)
    /\ scanPc = "update"
       => /\ Attempted = manga.channels
          /\ \A c \in Channels :
                Count(Attempted, c) = IF Contains(manga.channels, c) THEN 1 ELSE 0

C7_Witness ==
    /\ scanPc = "update"
    /\ Len(manga.channels) = 2
    /\ Attempted = manga.channels
    /\ ~sent[1][2]
    /\ sent[2][2]

\* C8: a pending delivery never stalls scanning: while the delivery of a
\* notification is pending and the snapshot has further items, the scan can
\* fetch the latest chapter of the next item.
C8_DeliveryDoesNotStallScan ==
    (scanPc = "send" /\ idx < Len(snapshot))
    => ENABLED scan_latest_chapter

\* C9: when the create of a track command meets a record that a concurrent
\* command for the same manga created, the command falls back to adding its
\* channel: once both have ended, the record holds both channels.
C9_ConflictFallsBack ==
    \A p \in Procs, q \in Procs :
       (/\ p # q
        /\ treq[p][1] = treq[q][1]
        /\ treq[p][2] # treq[q][2]
        /\ tpc[q] = "done"
        /\ tpc[p] \in {"done", "failed"}
        /\ terr[p] \in {"", "conflict"}
        /\ twrote[q])
       => /\ db[treq[p][1]].exists
          /\ Contains(db[treq[p][1]].channels, treq[p][2])
          /\ Contains(db[treq[p][1]].channels, treq[q][2])

\* C10: a track command that ends in an upstream or store failure has changed
\* nothing in the collection, and a command that is still waiting for the
\* title or the latest chapter, or is about to insert, has written nothing.
C10_NoPartialRecord ==
    \A p \in Procs :
       /\ (tpc[p] = "failed" /\ terr[p] \in {"upstream", "store", "conflict"})
          => ~twrote[p]
       /\ tpc[p] \in {"title", "latest", "create"}
          => ~twrote[p]

C10_Witness ==
    \E p \in Procs :
       /\ tpc[p] = "failed"
       /\ terr[p] = "upstream"
       /\ ~twrote[p]
       /\ ~db[treq[p][1]].exists

\* C11: a track command that fails (the MangaDex API unavailable or
\* answering with an error, the store unavailable, an option that names no
\* manga) has sent a reply to the caller by the time it ends; for an option
\* that names no manga the reply is "Please specify a valid manga id or url.".
C11_FailureIsAnswered ==
    \A p \in Procs :
       (tpc[p] = "failed" /\ terr[p] \in {"upstream", "store", "argument"})
       => /\ treply[p] # ""
          /\ terr[p] = "argument" => treply[p] = "invalid"

\* A string that spells a manga id, in any spelling that is well formed.
IsIdSpelling(s) == s[1] \in {"uuid", "UUID"}

\* A URL on mangadex.org whose first segment is "title" and whose second
\* segment spells an id.
IsTitleUrl(r) ==
    /\ r.url
    /\ r.host = "mangadex.org"
    /\ Len(r.path) >= 2
    /\ r.path[1] = Word("title")
    /\ IsIdSpelling(r.path[2])

\* C14: the option of a track command resolves to the id it spells when it
\* is a well-formed id; to the id of its second path segment when it is a URL
\* on mangadex.org whose first segment is "title" and whose second is a
\* well-formed id, whatever follows; every other string resolves to no id,
\* and the command then ends with an argument error without any call to the
\* store or to the MangaDex API.
C14_ReferenceResolution ==
    \A p \in Procs :
       tpc[p] # "idle"
       => /\ (~tref[p].url /\ IsIdSpelling(tref[p].text))
             => /\ treq[p][1] = tref[p].text[2]
                /\ terr[p] # "argument"
          /\ IsTitleUrl(tref[p])
             => /\ treq[p][1] = tref[p].path[2][2]
                /\ terr[p] # "argument"
          /\ (~(~tref[p].url /\ IsIdSpelling(tref[p].text)) /\ ~IsTitleUrl(tref[p]))
             => /\ treq[p][1] = None
                /\ tpc[p] = "failed"
                /\ terr[p] = "argument"
                /\ ~tcalled[p]
                /\ ~twrote[p]

C14_Witness ==
    \E p \in Procs, m \in TrackIds :
       /\ tpc[p] = "done"
       /\ tref[p] = UrlRef("mangadex.org",
                           <<Word("title"), <<"UUID", m>>, Word("manga")>>)
       /\ treq[p][1] = m
       /\ db[m].exists

\* C12: every record of the collection has at least one channel, in every
\* reachable state, whatever the interleaving of track commands and scans.
C12_ChannelsNeverEmpty ==
    \A m \in Mangas : db[m].exists => Len(db[m].channels) >= 1

C12_Witness ==
    \E m \in Mangas :
       /\ db[m].exists
       /\ Len(db[m].channels) = 2
       /\ db[m].latest_chapter_id # baseline[m]
       /\ \E x \in notified : x[1] = m

\* The link that ends a message about the chapter being reported.
Link == <<"\n", "https://mangadex.org/chapter/", ToString(chapter)>>

\* C13: the text of a notification is chosen from the attributes of the
\* chapter: number and title present, "New chapter!\n{T} ch. {chapter}:
\* {title}"; number present and title absent, "New chapter!\n{T} ch.
\* {chapter}"; number absent, whatever the title, "New chapter for {T}!";
\* and always a next line with the link https://mangadex.org/chapter/{id}.
C13_MessageText ==
    \A i \in 1..Len(sent) :
       LET a == attributes[chapter]
           T == manga.title
           text == sent[i][3]
       IN /\ (a.chapter # <<>> /\ a.title # <<>>)
             => text = <<"New chapter!\n", T, " ch. ", a.chapter[1], ": ",
                         a.title[1]>> \o Link
          /\ (a.chapter # <<>> /\ a.title = <<>>)
             => text = <<"New chapter!\n", T, " ch. ", a.chapter[1]>> \o Link
          /\ a.chapter = <<>>
             => text = <<"New chapter for ", T, "!">> \o Link

C13_Witness ==
    /\ scanPc = "update"
    /\ Len(sent) = 2
    /\ manga.title = "T"
    /\ attributes[chapter] = ChapterAttributes(<<"12">>, <<"The Return">>)
    /\ sent[2][3] = <<"New chapter!\n", "T", " ch. ", "12", ": ", "The Return",
                      "\n", "https://mangadex.org/chapter/", ToString(chapter)>>

\* C15: the new chapter id is written to the record before any notification
\* about it: whenever the scan makes a delivery attempt, the record of the
\* item already holds the reported chapter as its latest_chapter_id.
C15_PersistBeforeNotify ==
    [][Len(sent') > Len(sent)
       => db[manga.id].latest_chapter_id = chapter]_vars

\* C16: once two track commands from different channels for a manga that is
\* already tracked have both replied "Now tracking {title}.", the record
\* holds both channels, however the two commands interleaved.
C16_NoLostSubscriber ==
    \A p \in Procs, q \in Procs :
       (/\ p # q
        /\ tpc[p] = "done" /\ treply[p] = "now"
        /\ tpc[q] = "done" /\ treply[q] = "now"
        /\ treq[p][1] = treq[q][1]
        /\ treq[p][2] # treq[q][2])
       => /\ Contains(db[treq[p][1]].channels, treq[p][2])
          /\ Contains(db[treq[p][1]].channels, treq[q][2])

\* The scan is at an item of the snapshot.
AtItem(pc) == pc \in {"fetch", "send", "update", "pace"}

\* C17: a scan cycle goes through every item of its snapshot: the loop is
\* left only after the pacing delay of the last item, with every item of the
\* snapshot visited in order, whatever calls failed on the way.
C17_CycleNotAborted ==
    [][(AtItem(scanPc) /\ ~AtItem(scanPc'))
       => /\ scanPc = "pace"
          /\ idx = Len(snapshot)
          /\ Len(visited') = Len(snapshot)
          /\ \A i \in 1..Len(snapshot) : visited'[i][1] = snapshot[i].id]_vars

C17_Witness ==
    /\ scanPc = "sleep"
    /\ Len(visited) = NumMangas
    /\ visited[1][2]
    /\ \E x \in notified : x[1] = visited[NumMangas][1] /\ x[4] = cycle

\* C18: when latest_chapter returns Err for an item of a scan, the scan
\* neither writes the record of the item, which stays as the snapshot has it
\* (latest_chapter_id, title and channels), nor makes a delivery attempt for
\* the item in that cycle.
C18_FetchFailureLeavesRecord ==
    (scanPc = "pace" /\ chapter = Err)
    => /\ db[manga.id] = manga
       /\ itemLog = {"fetch failed"}
       /\ \A x \in notified : ~(x[1] = manga.id /\ x[4] = cycle)

C18_Witness ==
    /\ scanPc = "pace"
    /\ chapter = Err
    /\ upstream[manga.id] \in Chapters
    /\ upstream[manga.id] # manga.latest_chapter_id
    /\ db[manga.id] = manga
    /\ \E x \in notified : x[1] # manga.id /\ x[4] = cycle

\* C20: when latest_chapter reports no chapter for an item, or the chapter
\* whose id the record already holds, the scan makes no delivery attempt and
\* no call to update for that item: it goes straight to the pacing delay,
\* and the record stays as the snapshot has it.
C20_NoUpdateNoWrite ==
    (scanPc = "pace" /\ (chapter = None \/ chapter = manga.latest_chapter_id))
    => /\ itemLog = {}
       /\ db[manga.id] = manga
       /\ \A x \in notified : ~(x[1] = manga.id /\ x[4] = cycle)

C20_Witness ==
    /\ scanPc = "pace"
    /\ chapter \in Chapters
    /\ chapter = manga.latest_chapter_id
    /\ itemLog = {}
    /\ db[manga.id] = manga
    /\ Len(visited) = 1
    /\ visited[1][1] # manga.id

\* MangaDex reports for manga m a chapter that its record does not hold.
UpdatePending(m) ==
    /\ db[m].exists
    /\ upstream[m] \in Chapters
    /\ db[m].latest_chapter_id # upstream[m]

\* Every channel of manga m has been sent a message about the chapter
\* MangaDex reports, and the record holds that chapter.
UpdateDone(m) ==
    /\ db[m].latest_chapter_id = upstream[m]
    /\ \A i \in 1..Len(db[m].channels) :
          \E x \in notified :
             x[1] = m /\ x[2] = upstream[m] /\ x[3] = db[m].channels[i]

\* C19 (as claimed): if MangaDex reports for a tracked manga a chapter U that
\* the record does not hold, U stays the latest and latest_chapter fails only
\* finitely often, then the fairly scheduled scan eventually notifies the
\* channels of the manga about U and the record eventually holds U.
C19_RetryByRescanning ==
    \A m \in TrackIds : UpdatePending(m) ~> UpdateDone(m)

\* C19 (amended): the same, provided that the calls to the store too
\* (read_many at the start of a cycle, update after the notifications) fail
\* only finitely often.
C19_RetryWhileStoreAnswers ==
    (SF_vars(ReadManyOk) /\ \A m \in TrackIds : SF_vars(UpdateOk(m)))
    => \A m \in TrackIds : UpdatePending(m) ~> UpdateDone(m)

C19_Witness ==
    /\ scanPc = "pace"
    /\ cycle = MaxCycles
    /\ scanned[manga.id]
    /\ UpdateDone(manga.id)
    /\ manga.latest_chapter_id # upstream[manga.id]
    /\ \A x \in notified : x[4] = cycle

\* C21: the notifications of a detected update go to the subscribers of the
\* copy of the record that read_many returned to this cycle and to nobody
\* else: every message sent for the item at hand, and every notification
\* recorded for it in this cycle, is addressed to a channel of snapshot[idx],
\* whatever the record in the store lists by now.
C21_SnapshotFanOut ==
    scanPc \in {"send", "update", "pace"} =>
       /\ \A i \in 1..Len(sent) : Contains(snapshot[idx].channels, sent[i][1])
       /\ \A c \in Channels :
             <<snapshot[idx].id, chapter, c, cycle>> \in notified
                => Contains(snapshot[idx].channels, c)

\* The fan-out of an update is over, and the stored record lists a channel
\* that a track request added after read_many: it received nothing.
C21_Witness ==
    /\ scanPc = "update"
    /\ Len(sent) = Len(snapshot[idx].channels)
    /\ \E c \in Channels :
          /\ Contains(db[snapshot[idx].id].channels, c)
          /\ ~Contains(snapshot[idx].channels, c)
          /\ <<snapshot[idx].id, chapter, c, cycle>> \notin notified

\* C22: what the scan writes for a detected update does not depend on how the
\* deliveries went.  While messages are being sent the record is as read;
\* once the fan-out is over the update is attempted in every case, and when
\* the store accepts it the record is the one read with latest_chapter_id set
\* to the detected chapter, when the store refuses it the record is as read,
\* whether or not a say failed.
C22_DeliveryBlindWrite ==
    /\ scanPc \in {"send", "update"} => db[manga.id] = manga
    /\ (scanPc = "pace" /\ "say" \in itemLog) =>
          /\ "update" \in itemLog
          /\ db[manga.id] =
                IF "update failed" \in itemLog
                THEN manga
                ELSE [manga EXCEPT !.latest_chapter_id = chapter]

\* An update went to two channels, a delivery failed, and the store holds
\* the detected chapter.
C22_Witness ==
    /\ scanPc = "pace"
    /\ Len(manga.channels) = 2
    /\ "say failed" \in itemLog
    /\ "update failed" \notin itemLog
    /\ manga.latest_chapter_id # chapter
    /\ db[manga.id].latest_chapter_id = chapter

\* C27: no stored record lists a channel twice, in every reachable state,
\* also when two track commands of the same channel for the same manga both
\* read the record before either writes it.
C27_NoDuplicateSubscriber ==
    \A m \in Mangas :
       db[m].exists => \A c \in 1..FirstChannel : Count(db[m].channels, c) <= 1

\* Two commands of one channel for one manga both read the record without
\* the channel, both wrote it and both answered; the channel is listed once.
C27_Witness ==
    \E p \in Procs, q \in Procs :
       /\ p # q
       /\ treq[p] = treq[q]
       /\ tpc[p] = "done" /\ tpc[q] = "done"
       /\ treply[p] = "now" /\ treply[q] = "now"
       /\ Count(db[treq[p][1]].channels, treq[p][2]) = 1

\* C28: a step of the scan leaves every record as it is, except that the
\* update of scan.rs:38-43 may set latest_chapter_id of the scanned item's
\* record to the detected chapter.  No record appears or disappears, and no
\* id, title or channel list changes, whatever track commands did to the
\* record since the scan read it.
C28_ScanWritesOnlyLatest ==
    [][scanPc' # scanPc =>
          \A m \in Mangas :
             \/ db'[m] = db[m]
             \/ /\ scanPc = "update"
                /\ m = manga.id
                /\ db[m].exists
                /\ db'[m] = [db[m] EXCEPT !.latest_chapter_id = chapter]]_vars

\* The scan has recorded the detected chapter in a record whose channel list
\* a track command extended after the scan read it: the added channel is
\* still listed.
C28_Witness ==
    /\ scanPc = "pace"
    /\ "update" \in itemLog
    /\ "update failed" \notin itemLog
    /\ manga.latest_chapter_id # chapter
    /\ db[manga.id].latest_chapter_id = chapter
    /\ Len(db[manga.id].channels) > Len(manga.channels)
    /\ db[manga.id].title = manga.title

\* C23: a track command for a manga without a record inserts one record and
\* changes no other.  Its latest_chapter_id is what MangaDex reported as the
\* manga's latest chapter when the command asked (None when it has none),
\* its channels are the command's channel alone, and its title is the title
\* english_title returned or, when it returned none, the manga's id.
C23_FirstSubscriptionRecord ==
    [][\A p \in Procs :
          /\ (tpc[p] = "latest" /\ tpc'[p] = "create") =>
                tdoc'[p].latest_chapter_id = upstream[treq[p][1]]
          /\ (tpc[p] = "create" /\ tpc'[p] = "say_now") =>
                /\ ~db[treq[p][1]].exists
                /\ db'[treq[p][1]] =
                      Manga(treq[p][1],
                            IF english_title(treq[p][1]) = ""
                            THEN "id" ELSE english_title(treq[p][1]),
                            tdoc[p].latest_chapter_id,
                            <<treq[p][2]>>)
                /\ \A m \in Mangas \ {treq[p][1]} : db'[m] = db[m]]_vars

\* A command has just inserted the record of a manga that has a latest
\* chapter and no english title.
C23_Witness ==
    \E p \in Procs :
       /\ tpc[p] = "say_now"
       /\ twrote[p]
       /\ english_title(treq[p][1]) = ""
       /\ db[treq[p][1]].exists
       /\ db[treq[p][1]].title = "id"
       /\ db[treq[p][1]].latest_chapter_id \in Chapters
       /\ db[treq[p][1]].channels = <<treq[p][2]>>

\* The languages tried after english, in their order.
AlternateLanguages == <<"ja-ro", "ja">>

RECURSIVE FirstTitle(_, _)
\* The title of the first language of langs that title has, "" when it has
\* none of them.
FirstTitle(title, langs) ==
    IF langs = <<>> THEN ""
    ELSE IF title[Head(langs)] # "" THEN title[Head(langs)]
    ELSE FirstTitle(title, Tail(langs))

\* C26: the title a track command has fetched for a manga is the english
\* title when the manga has one, otherwise the title in the first alternate
\* language it has one in, and none (so that the manga's id is used) only
\* when the manga has a title in none of these languages.
C26_TitleResolution ==
    \A p \in Procs :
       tpc[p] = "latest" =>
          tdoc[p].title =
             TitleOrId(FirstTitle(titles[treq[p][1]],
                                  <<"en">> \o AlternateLanguages))

\* C24: scan cycles start at a fixed period from start to start.  When the
\* period's sleep ends and the next check_for_updates is called, the time
\* since the previous call is exactly Period if the scan took no longer than
\* Period, and exactly the time the scan took if it took longer.
C24_FixedPeriodStarts ==
    [][(scanPc = "sleep" /\ scanPc' = "start") =>
          now - lastStart = IF sleepFrom - lastStart <= Period
                            THEN Period
                            ELSE sleepFrom - lastStart]_vars

\* A step of the scan task that is the return of latest_chapter.
FetchStep == scanPc = "fetch" /\ scanVars' # scanVars

\* C25: the scan handles one item at a time, calls latest_chapter at most
\* once for an item, and sleeps the delay of scan.rs:50 after every item,
\* whatever happened to it.  So: a call of latest_chapter comes at least Pace
\* after the previous one; the call for an item is not followed by another
\* call for the same item; the task arrives at a call only from the start of
\* the cycle, for the first item, or from the delay after the item before;
\* and it leaves an item only out of that delay, begun after the item's call
\* and slept in full.
C25_PacedFetches ==
    [][/\ FetchStep =>
             /\ lastFetch < 0 \/ now - lastFetch >= Pace
             /\ ~(scanPc' = "fetch" /\ idx' = idx)
       /\ (scanPc # "fetch" /\ scanPc' = "fetch") =>
             \/ scanPc = "start" /\ idx' = 1
             \/ scanPc = "pace" /\ idx' = idx + 1
       /\ (scanPc \in {"fetch", "send", "update", "pace"} /\ idx' # idx) =>
             /\ scanPc = "pace"
             /\ sleepFrom >= lastFetch
             /\ now >= sleepFrom + Pace]_vars

\* The second item of a cycle has an update, found by a call made after the
\* call for the first item had failed and the delay had passed.
C25_Witness ==
    /\ scanPc = "send"
    /\ idx = 2
    /\ visited = <<<<snapshot[1].id, TRUE>>>>
    /\ chapter \in Chapters
    /\ lastFetch >= Pace

\* The cycle's read_many failed: the store has records, and the task is in
\* the period's sleep without having started on any item.
ListFailed ==
    /\ scanPc = "sleep"
    /\ cycle >= 1
    /\ visited = <<>>
    /\ \E m \in Mangas : db[m].exists

\* C29: when read_many fails at the start of a cycle, the step that fails
\* takes the task to the period's sleep and changes neither the store nor
\* what has been sent nor the time of the last call of latest_chapter; in
\* that cycle nothing was fetched, sent or written; and the task goes on:
\* its next step is to start the next cycle, taken when exactly Period has
\* passed since the failure, and enabled from then on.
C29_FailedListSkipsCycle ==
    /\ [][(scanPc = "start" /\ scanPc' # "start" /\ scanPc' # "fetch") =>
             /\ scanPc' = "sleep"
             /\ sleepFrom' = now
             /\ UNCHANGED <<db, notified, lastFetch, sent, itemLog>>]_vars
    /\ [](ListFailed =>
             /\ lastFetch < lastStart
             /\ \A x \in notified : x[4] # cycle
             /\ \A m \in Mangas : seenAt[m] # cycle
             /\ (now >= sleepFrom + Period => ENABLED scan_sleep_period))
    /\ [][(ListFailed /\ scanPc' # scanPc) =>
             /\ scanPc' = "start"
             /\ now = sleepFrom + Period]_vars

\* read_many failed in the second cycle, after a first cycle that fetched
\* and notified, and the period's sleep that follows the failure is over.
C29_Witness ==
    /\ ListFailed
    /\ cycle = 2
    /\ lastFetch >= 0
    /\ notified # {}
    /\ now = sleepFrom + Period

====
